---- MODULE Spec2Model ----
(***************************************************************************)
(* Model of echo-server-rs (src/src/main.rs): the ThreadPool, its Workers, *)
(* the mpsc channel of Operations shared through Arc<Mutex<Receiver>>, and *)
(* the handle/echo loop run for one connection.                            *)
(***************************************************************************)
EXTENDS Integers, Sequences, FiniteSets, TLC

\* ---------------------------------------------------------------- bounds
MaxSize  == 3   \* largest `size` passed to ThreadPool::new
MaxTasks == 4   \* number of closures the caller submits through execute
MaxData  == 3   \* number of bytes the peer sends on one connection
BufLen   == 2   \* length of the read buffer of handle (1024 in the source)

Byte == {0, 1}

VARIABLES
    \* --- ThreadPool / Worker / channel ---
    pool,       \* position of the owner of the pool: new, alive, drop, ...
    size,       \* workers.len()
    termSent,   \* index of the `for _ in 0..self.workers.len()` loop of drop
    joinIdx,    \* index of the `for worker in &mut self.workers` loop of drop
    thread,     \* thread[w]: TRUE = Some(JoinHandle), FALSE = None (taken)
    queue,      \* the messages buffered in the mpsc channel, head first
    mutex,      \* holder of the Mutex around the Receiver, or Free
    poisoned,   \* the Mutex is poisoned
    wpc,        \* wpc[w]: position of worker w's thread in its loop
    wop,        \* wop[w]: the op_res worker w got from recv()
    nextTask,   \* number of the next closure handed to execute
    started,    \* started[t]: how many times closure t was invoked
    finished,   \* finished[t]: how many times closure t returned
    rejected,   \* closures whose send failed inside execute
    sentLog,    \* every Operation enqueued, in send order
    deqLog,     \* every Operation dequeued, in dequeue order
    \* --- handle / echo on one connection ---
    hpc,        \* position of handle: idle, read, write, done (Ok(0)), failed (Err)
    peer,       \* bytes the peer has sent and the server has not read yet
    buffer,     \* the bytes echo's read put at the front of `buffer`
    readLog,    \* all the bytes read from the peer, in order
    writeLog    \* all the bytes written back to the peer, in order

poolVars == <<pool, size, termSent, joinIdx, thread, queue, mutex, poisoned,
              wpc, wop, nextTask, started, finished, rejected, sentLog, deqLog>>
echoVars == <<hpc, peer, buffer, readLog, writeLog>>
vars == <<poolVars, echoVars>>

\* ------------------------------------------------------------- messages
\* enum Operation { Execute(Task), Terminate }
Execute(t) == [op |-> "Execute", task |-> t]
Terminate  == [op |-> "Terminate", task |-> 0]
\* Err(RecvError) returned by recv(), and "nothing received yet"
RecvError  == [op |-> "RecvError", task |-> 0]
NoOp       == [op |-> "None", task |-> 0]

Tasks == 1..MaxTasks

\* ids of the workers built by `(0..size).map(|id| Worker::new(id, ..))`
WorkerIdsOneMore(n) == 0..n
WorkerIds(n) == 0..(n - 1)

\* the worker threads spawned by new
Workers == DOMAIN wpc

\* assert!(size > 0)
SizeOkZero(n) == n >= 0
SizeOk(n) == n > 0

\* A worker's thread has ended: its closure returned (break) or unwound.
ThreadEnded(pc) == pc \in {"done", "panicked"}

\* The Arc clones of the receiver still alive: one per worker thread whose
\* closure has not ended (the clone made in new() is dropped when new returns).
LiveReceivers == {w \in Workers : ~ThreadEnded(wpc[w])}

\* mpsc::channel() is unbounded: send never waits for room.
SendBlocksBounded(q) == Len(q) >= 1
SendBlocks(q) == FALSE

\* Sender::send: Err(SendError) iff the Receiver has been dropped.
SendFails == LiveReceivers = {}

\* Sender::send on a connected channel puts the message at the tail.
SendFront(q, m) == <<m>> \o q
Send(q, m) == Append(q, m)

\* Receiver::recv on a non-empty channel takes the message at the head.
RecvPeek(q) == [msg |-> Head(q), rest |-> q]
RecvLifo(q) == [msg |-> q[Len(q)], rest |-> SubSeq(q, 1, Len(q) - 1)]
Recv(q) == [msg |-> Head(q), rest |-> Tail(q)]

\* The Sender is a field of the ThreadPool: it is dropped with the pool, after
\* Drop::drop has returned or unwound. "disconnected" is the channel of a
\* worker taken on its own (WorkerSpec) whose Sender is gone.
SenderDropped == pool \in {"dropped", "drop_panicked", "disconnected"}

\* The buffered messages are freed with the Receiver, i.e. when the last
\* worker closure ends while worker w is the only one left.
QueueAfterEnd(w) == IF LiveReceivers \subseteq {w} THEN <<>> ELSE queue

\* ------------------------------------------------------------- ThreadPool
\* ThreadPool::new(size)
ThreadPoolNew(n) ==
    /\ pool = "new"
    /\ IF SizeOk(n)
       THEN /\ pool' = "alive"
            /\ size' = n
            /\ thread' = [w \in WorkerIds(n) |-> TRUE]
            /\ wpc' = [w \in WorkerIds(n) |-> "loop"]
            /\ wop' = [w \in WorkerIds(n) |-> NoOp]
       ELSE /\ pool' = "new_panicked"
            /\ UNCHANGED <<size, thread, wpc, wop>>
    /\ UNCHANGED <<termSent, joinIdx, queue, mutex, poisoned, nextTask,
                   started, finished, rejected, sentLog, deqLog>>
    /\ UNCHANGED echoVars

\* What becomes of the caller when the send of execute fails: the error is
\* printed and execute returns.
ExecuteOnErrorUnwrap == "execute_panicked"
ExecuteOnError == "alive"

\* ThreadPool::execute(f), f being closure number nextTask
ThreadPoolExecute ==
    /\ pool = "alive"
    /\ nextTask <= MaxTasks
    /\ ~SendBlocks(queue)
    /\ nextTask' = nextTask + 1
    /\ IF SendFails
       THEN /\ rejected' = rejected \cup {nextTask}
            /\ pool' = ExecuteOnError
            /\ UNCHANGED <<queue, sentLog>>
       ELSE /\ queue' = Send(queue, Execute(nextTask))
            /\ sentLog' = Append(sentLog, Execute(nextTask))
            /\ UNCHANGED <<rejected, pool>>
    /\ UNCHANGED <<size, termSent, joinIdx, thread, mutex, poisoned, wpc, wop,
                   started, finished, deqLog>>
    /\ UNCHANGED echoVars

\* Drop::drop is entered (the pool goes out of scope).
DropBegin ==
    /\ pool = "alive"
    /\ pool' = "dropping"
    /\ UNCHANGED <<size, termSent, joinIdx, thread, queue, mutex, poisoned,
                   wpc, wop, nextTask, started, finished, rejected, sentLog,
                   deqLog>>
    /\ UNCHANGED echoVars

\* number of iterations of `for _ in 0..self.workers.len()`
TerminateCountLong(n) == n + 1
TerminateCountShort(n) == n - 1
TerminateCount(n) == n

\* one iteration of the first loop: self.sender.send(Terminate).unwrap()
DropSendTerminate ==
    /\ pool = "dropping"
    /\ termSent < TerminateCount(size)
    /\ ~SendBlocks(queue)
    /\ IF SendFails
       THEN /\ pool' = "drop_panicked"
            /\ UNCHANGED <<termSent, queue, sentLog>>
       ELSE /\ queue' = Send(queue, Terminate)
            /\ sentLog' = Append(sentLog, Terminate)
            /\ termSent' = termSent + 1
            /\ UNCHANGED pool
    /\ UNCHANGED <<size, joinIdx, thread, mutex, poisoned, wpc, wop, nextTask,
                   started, finished, rejected, deqLog>>
    /\ UNCHANGED echoVars

\* JoinHandle::join returns once the thread has ended.
JoinReturnsAlways(pc) == TRUE
JoinReturnsRunning(pc) == pc \in {"done", "panicked", "task"}
JoinReturns(pc) == ThreadEnded(pc)

\* one iteration of the second loop: worker.thread.take(), join().unwrap()
DropJoin ==
    /\ pool = "dropping"
    /\ termSent >= TerminateCount(size)
    /\ joinIdx < size
    /\ IF thread[joinIdx]
       THEN /\ JoinReturns(wpc[joinIdx])
            /\ thread' = [thread EXCEPT ![joinIdx] = FALSE]
            /\ IF wpc[joinIdx] = "panicked"
               THEN pool' = "drop_panicked" /\ UNCHANGED joinIdx
               ELSE joinIdx' = joinIdx + 1 /\ UNCHANGED pool
       ELSE /\ joinIdx' = joinIdx + 1
            /\ UNCHANGED <<thread, pool>>
    /\ UNCHANGED <<size, termSent, queue, mutex, poisoned, wpc, wop, nextTask,
                   started, finished, rejected, sentLog, deqLog>>
    /\ UNCHANGED echoVars

\* Drop::drop returns after the second loop; the fields are dropped.
DropReturn ==
    /\ pool = "dropping"
    /\ termSent >= TerminateCount(size)
    /\ joinIdx = size
    /\ pool' = "dropped"
    /\ UNCHANGED <<size, termSent, joinIdx, thread, queue, mutex, poisoned,
                   wpc, wop, nextTask, started, finished, rejected, sentLog,
                   deqLog>>
    /\ UNCHANGED echoVars

\* ----------------------------------------------------------------- Worker
\* Where a worker goes when lock() returns Err(PoisonError): `.ok()` makes it
\* None, so the worker is at the end of the `if let` with no op_res.
OnPoisonedUnwrap == "panicked"
OnPoisoned == "match"

\* The Mutex once the MutexGuard moved into `.map(|r| r.recv())` is dropped at
\* the end of that closure, before op_res is matched.
GuardKept(m, w) == m
GuardDropped(m, w) == m \ {w}

\* receiver.lock(): waits while another thread holds the guard; on a poisoned
\* Mutex it returns Err, .ok() gives None and the `if let` body is skipped.
\* The PoisonError holds the guard until .ok() has turned it into None, which
\* the `if let Some(op_res)` then does not match.
WorkerLock(w) ==
    /\ w \in Workers
    /\ wpc[w] = "loop"
    /\ mutex = {}
    /\ mutex' = {w}
    /\ wpc' = [wpc EXCEPT ![w] = IF poisoned THEN OnPoisoned ELSE "recv"]
    /\ UNCHANGED <<pool, size, termSent, joinIdx, thread, queue, poisoned, wop,
                   nextTask, started, finished, rejected, sentLog, deqLog>>
    /\ UNCHANGED echoVars

\* r.recv() under the guard: blocks while the channel is empty and the Sender
\* lives, takes the head message otherwise, Err once empty and disconnected.
WorkerRecv(w) ==
    /\ w \in Workers
    /\ wpc[w] = "recv"
    /\ mutex = {w}
    /\ IF queue # <<>>
       THEN /\ wop' = [wop EXCEPT ![w] = Recv(queue).msg]
            /\ queue' = Recv(queue).rest
            /\ deqLog' = Append(deqLog, Recv(queue).msg)
       ELSE /\ SenderDropped
            /\ wop' = [wop EXCEPT ![w] = RecvError]
            /\ UNCHANGED <<queue, deqLog>>
    /\ wpc' = [wpc EXCEPT ![w] = "match"]
    /\ UNCHANGED <<pool, size, termSent, joinIdx, thread, mutex, poisoned,
                   nextTask, started, finished, rejected, sentLog>>
    /\ UNCHANGED echoVars

\* Where the loop goes for an op_res, the guard having been dropped at the end
\* of the closure given to map: task() / break / next iteration.
AfterMatchNoBreak(m) ==
    CASE m.op = "Execute"   -> "task"
      [] OTHER              -> "loop"
AfterMatch(m) ==
    CASE m.op = "Execute"   -> "task"
      [] m.op = "Terminate" -> "done"
      [] OTHER              -> "loop"

\* End of `.map(|r| r.recv())` (the MutexGuard is dropped) and `match op_res`.
WorkerMatch(w) ==
    /\ w \in Workers
    /\ wpc[w] = "match"
    /\ mutex' = GuardDropped(mutex, w)
    /\ wpc' = [wpc EXCEPT ![w] = AfterMatch(wop[w])]
    /\ started' = IF wop[w].op = "Execute"
                  THEN [started EXCEPT ![wop[w].task] = @ + 1]
                  ELSE started
    /\ wop' = IF wop[w].op = "Execute" THEN wop ELSE [wop EXCEPT ![w] = NoOp]
    /\ queue' = IF AfterMatch(wop[w]) = "done" THEN QueueAfterEnd(w) ELSE queue
    /\ UNCHANGED <<pool, size, termSent, joinIdx, thread, poisoned, nextTask,
                   finished, rejected, sentLog, deqLog>>
    /\ UNCHANGED echoVars

\* task() returns: the closure is consumed, the loop goes on.
TaskReturn(w) ==
    /\ w \in Workers
    /\ wpc[w] = "task"
    /\ finished' = [finished EXCEPT ![wop[w].task] = @ + 1]
    /\ wpc' = [wpc EXCEPT ![w] = "loop"]
    /\ wop' = [wop EXCEPT ![w] = NoOp]
    /\ UNCHANGED <<pool, size, termSent, joinIdx, thread, queue, mutex,
                   poisoned, nextTask, started, rejected, sentLog, deqLog>>
    /\ UNCHANGED echoVars

\* task() panics: nothing catches it, the thread unwinds and its Arc clone of
\* the receiver is dropped. No guard is held here, so the Mutex stays clean.
TaskPanic(w) ==
    /\ w \in Workers
    /\ wpc[w] = "task"
    /\ wpc' = [wpc EXCEPT ![w] = "panicked"]
    /\ wop' = [wop EXCEPT ![w] = NoOp]
    /\ queue' = QueueAfterEnd(w)
    /\ UNCHANGED <<pool, size, termSent, joinIdx, thread, mutex, poisoned,
                   nextTask, started, finished, rejected, sentLog, deqLog>>
    /\ UNCHANGED echoVars

\* ------------------------------------------------------------ thread pool spec
Init ==
    /\ pool = "new"
    /\ size = 0
    /\ termSent = 0
    /\ joinIdx = 0
    /\ thread = <<>>
    /\ queue = <<>>
    /\ mutex = {}
    /\ poisoned = FALSE
    /\ wpc = <<>>
    /\ wop = <<>>
    /\ nextTask = 1
    /\ started = [t \in Tasks |-> 0]
    /\ finished = [t \in Tasks |-> 0]
    /\ rejected = {}
    /\ sentLog = <<>>
    /\ deqLog = <<>>
    /\ hpc = "idle"
    /\ peer = <<>>
    /\ buffer = <<>>
    /\ readLog = <<>>
    /\ writeLog = <<>>

Next ==
    \/ \E n \in 0..MaxSize : ThreadPoolNew(n)
    \/ ThreadPoolExecute
    \/ DropBegin
    \/ DropSendTerminate
    \/ DropJoin
    \/ DropReturn
    \/ \E w \in Workers : WorkerLock(w)
    \/ \E w \in Workers : WorkerRecv(w)
    \/ \E w \in Workers : WorkerMatch(w)
    \/ \E w \in Workers : TaskReturn(w)
    \/ \E w \in Workers : TaskPanic(w)

Spec == Init /\ [][Next]_vars

\* The threads are scheduled fairly: the worker threads and the thread inside
\* Drop::drop keep taking their steps, and a task that can return does.
Fairness ==
    /\ WF_vars(DropSendTerminate)
    /\ WF_vars(DropJoin)
    /\ WF_vars(DropReturn)
    /\ \A w \in WorkerIds(MaxSize) :
          /\ WF_vars(WorkerLock(w))
          /\ WF_vars(WorkerRecv(w))
          /\ WF_vars(WorkerMatch(w))
          /\ WF_vars(TaskReturn(w))

LiveSpec == Spec /\ Fairness

\* ------------------------------------------------------------ handle / echo
Min(a, b) == IF a < b THEN a ELSE b

\* All sequences over S of length at most n.
SeqsUpTo(S, n) == UNION {[1..k -> S] : k \in 0..n}

\* The values Ok(n) that stream.read(buffer) can return: 0 at end of stream,
\* otherwise some of the pending bytes, at most buffer.len().
ReadCounts == IF peer = <<>> THEN {0} ELSE 1..Min(Len(peer), BufLen)

\* The values Ok(k) that stream.write(&buffer[0..n]) can return: write makes
\* one attempt and reports how many bytes of the slice it took.
WriteCounts(n) == IF n = 0 THEN {0} ELSE 1..n

\* echo: `let read_bytes = stream.read(buffer)?;`
EchoRead ==
    /\ hpc = "read"
    /\ \/ \E n \in ReadCounts :
             /\ buffer' = SubSeq(peer, 1, n)
             /\ peer' = SubSeq(peer, n + 1, Len(peer))
             /\ readLog' = readLog \o SubSeq(peer, 1, n)
             /\ hpc' = "write"
       \/ /\ hpc' = "failed"
          /\ UNCHANGED <<buffer, peer, readLog>>
    /\ UNCHANGED writeLog
    /\ UNCHANGED poolVars

\* echo: `stream.write(&buffer[0..read_bytes])?; Ok(read_bytes)` and the match
\* of handle on it: break on Ok(0) and on Err, loop otherwise. The count that
\* write returns is not looked at.
EchoWrite ==
    /\ hpc = "write"
    /\ \/ \E k \in WriteCounts(Len(buffer)) :
             /\ writeLog' = writeLog \o SubSeq(buffer, 1, k)
             /\ hpc' = IF Len(buffer) = 0 THEN "done" ELSE "read"
       \/ /\ hpc' = "failed"
          /\ UNCHANGED writeLog
    /\ UNCHANGED <<peer, buffer, readLog>>
    /\ UNCHANGED poolVars

\* handle(stream) is entered with the bytes the peer is going to send.
EchoInit ==
    /\ pool = "new"
    /\ size = 0
    /\ termSent = 0
    /\ joinIdx = 0
    /\ thread = <<>>
    /\ queue = <<>>
    /\ mutex = {}
    /\ poisoned = FALSE
    /\ wpc = <<>>
    /\ wop = <<>>
    /\ nextTask = 1
    /\ started = [t \in Tasks |-> 0]
    /\ finished = [t \in Tasks |-> 0]
    /\ rejected = {}
    /\ sentLog = <<>>
    /\ deqLog = <<>>
    /\ hpc = "read"
    /\ peer \in SeqsUpTo(Byte, MaxData)
    /\ buffer = <<>>
    /\ readLog = <<>>
    /\ writeLog = <<>>

EchoNext == EchoRead \/ EchoWrite

EchoSpec == EchoInit /\ [][EchoNext]_vars

\* =================================================================== claims
\* closures handed to execute so far
Submitted == 1..(nextTask - 1)

\* workers whose thread is inside task()
Running == {w \in DOMAIN wpc : wpc[w] = "task"}

NoTaskPanicked == \A w \in DOMAIN wpc : wpc[w] # "panicked"

\* C1: when Drop::drop has returned, every closure submitted through execute
\* before it has been invoked exactly once and has returned exactly once,
\* also when more closures than workers were submitted.
C1_AllExecutedOnce ==
    pool = "dropped" =>
        \A t \in Submitted : started[t] = 1 /\ finished[t] = 1

\* drop has returned on a pool that was given more closures than it has workers
C1_Witness ==
    /\ pool = "dropped"
    /\ size >= 2
    /\ Cardinality(Submitted) > size
    /\ \A t \in Submitted : finished[t] = 1

\* C2: under fair scheduling, and provided no claimed closure panics (each one
\* returns), once Drop::drop is entered it eventually returns and every worker
\* has then taken a Terminate and left its loop.
C2_ShutdownCompletes ==
    ([]NoTaskPanicked) =>
        ((pool = "dropping") ~>
            (pool = "dropped" /\ \A w \in Workers : wpc[w] = "done"))

\* drop has returned on a pool of several workers that had run closures
C2_Witness ==
    /\ pool = "dropped"
    /\ size >= 2
    /\ \E t \in Submitted : finished[t] = 1
    /\ Len(deqLog) = size + Cardinality(Submitted)

\* C3: in every state where Drop::drop has returned, every worker thread has
\* left its loop and its JoinHandle has been taken and joined; none is at the
\* lock, in recv or inside a task, and nobody holds the Mutex.
C3_AllJoined ==
    pool = "dropped" =>
        /\ \A w \in Workers : wpc[w] = "done" /\ ~thread[w]
        /\ joinIdx = size
        /\ mutex = {}

\* drop has returned on a pool of MaxSize - 1 or more workers
C3_Witness ==
    /\ pool = "dropped"
    /\ size >= 2
    /\ \A w \in Workers : ~thread[w]

\* C4: at most `size` closures are being executed at the same instant.
C4_BoundedParallelism == Cardinality(Running) <= size

\* every worker is inside a task while more closures wait in the channel
C4_Witness ==
    /\ size >= 2
    /\ Cardinality(Running) = size
    /\ Len(queue) >= 2

\* C5: a worker inside task() leaves it only by its own closure ending (it
\* returns, or unwinds the thread); a Terminate is only ever taken by a worker
\* that is in recv, not by one inside a task; and Drop::drop has not returned
\* while a claimed closure is unfinished.
C5_LeavesOnlyByReturn ==
    \A w \in DOMAIN wpc :
        (wpc[w] = "task" /\ wpc'[w] # "task") =>
            \/ /\ wpc'[w] = "loop"
               /\ finished'[wop[w].task] = finished[wop[w].task] + 1
               /\ pool' = pool
            \/ /\ wpc'[w] = "panicked"
               /\ pool' = pool

C5_StopOnlyBetweenTasks ==
    \A w \in DOMAIN wpc :
        (wop'[w] = Terminate /\ wop[w] # Terminate) => wpc[w] = "recv"

C5_NoUnfinishedAfterDrop ==
    pool = "dropped" =>
        /\ Running = {}
        /\ \A t \in Tasks : started[t] = finished[t]

C5_ShutdownWaits ==
    /\ []C5_NoUnfinishedAfterDrop
    /\ [][C5_LeavesOnlyByReturn /\ C5_StopOnlyBetweenTasks]_vars

\* drop has sent its Terminates and is in join while a worker is inside a task
C5_Witness ==
    /\ pool = "dropping"
    /\ termSent = size
    /\ Running # {}
    /\ \E i \in 1..Len(queue) : queue[i] = Terminate

\* C6: the k-th message taken out of the channel, by whichever worker, is the
\* k-th message that was sent.
C6_FifoDelivery ==
    /\ Len(deqLog) <= Len(sentLog)
    /\ deqLog = SubSeq(sentLog, 1, Len(deqLog))

\* three or more messages were taken, closures and a Terminate among them
C6_Witness ==
    /\ Len(deqLog) >= 3
    /\ deqLog[1].op = "Execute"
    /\ deqLog[Len(deqLog)] = Terminate

\* C7: while the pool is alive execute can always be taken, whatever the
\* workers are doing and however long the channel is; it returns with the pool
\* alive and without touching a worker, and with a live receiver its closure
\* is then the last message of the channel.
C7_ExecuteEnabled ==
    (pool = "alive" /\ nextTask <= MaxTasks) => ENABLED ThreadPoolExecute

C7_ExecuteEnqueues ==
    (nextTask' = nextTask + 1) =>
        /\ pool' = "alive"
        /\ wpc' = wpc
        /\ mutex' = mutex
        /\ ~SendFails => queue' = Append(queue, Execute(nextTask))

C7_NeverBlocks ==
    /\ []C7_ExecuteEnabled
    /\ [][C7_ExecuteEnqueues]_vars

\* every worker is inside a task and the channel holds two unclaimed closures
C7_Witness ==
    /\ pool = "alive"
    /\ size >= 2
    /\ Cardinality(Running) = size
    /\ Len(queue) >= 2
    /\ queue[Len(queue)] = Execute(nextTask - 1)

\* C8: whenever handle is back at the top of its loop, and when it has left
\* the loop on a read of zero bytes, the bytes written to the peer are exactly
\* the bytes read from it, in the same order.
C8_EchoVerbatim ==
    hpc \in {"read", "done"} => writeLog = readLog

\* C9: ThreadPool::new(0) panics: no worker exists, nothing can be submitted
\* or dropped, and every pool that was constructed has size > 0.
C9_ZeroSizeFails ==
    /\ pool = "new_panicked" =>
          /\ DOMAIN wpc = {}
          /\ DOMAIN thread = {}
          /\ queue = <<>>
          /\ ~ENABLED ThreadPoolExecute
          /\ ~ENABLED DropBegin
    /\ pool \notin {"new", "new_panicked"} => size > 0

\* new was called with size 0
C9_Witness == pool = "new_panicked" /\ size = 0

\* C10: when the send of execute fails, execute returns with the pool alive,
\* the channel, the workers and the Mutex are as before, the closure is
\* dropped, and a dropped closure is never invoked.
C10_RejectReturns ==
    (nextTask' = nextTask + 1 /\ SendFails) =>
        /\ pool' = "alive"
        /\ rejected' = rejected \cup {nextTask}
        /\ queue' = queue
        /\ <<wpc, wop, thread, mutex, started, finished>>'
              = <<wpc, wop, thread, mutex, started, finished>>

C10_RejectedNeverRun ==
    \A t \in rejected : started[t] = 0 /\ finished[t] = 0

C10_SendFailureContained ==
    /\ []C10_RejectedNeverRun
    /\ [][C10_RejectReturns]_vars

\* a closure was rejected by execute and the caller went on
C10_Witness ==
    /\ pool = "alive"
    /\ rejected # {}
    /\ nextTask - 1 \in rejected

\* C11: no worker holds the Mutex of the receiver while it is inside task():
\* whoever holds it is in recv() or at the end of the map closure, and the
\* guard is gone when the closure is invoked.
C11_LockDiscipline ==
    /\ Cardinality(mutex) <= 1
    /\ \A w \in DOMAIN wpc :
          /\ wpc[w] = "task" => w \notin mutex
          /\ w \in mutex => wpc[w] \in {"recv", "match"}

\* one worker is inside a task while another one holds the Mutex in recv()
C11_Witness ==
    \E w1, w2 \in DOMAIN wpc :
        /\ w1 # w2
        /\ wpc[w1] = "task"
        /\ wpc[w2] = "recv"
        /\ mutex = {w2}

\* C12: every message is taken by at most one worker: no closure is dequeued
\* twice, no two workers hold the same closure at the same time, and no
\* closure is invoked a second time.
C12_ClaimedOnce ==
    /\ \A t \in Tasks : started[t] <= 1
    /\ \A w1, w2 \in DOMAIN wop :
          (w1 # w2 /\ wop[w1].op = "Execute" /\ wop[w2].op = "Execute")
              => wop[w1].task # wop[w2].task
    /\ \A i, j \in 1..Len(deqLog) :
          (i # j /\ deqLog[i].op = "Execute") => deqLog[i] # deqLog[j]
    /\ Len(deqLog) <= Len(sentLog)

\* two workers are inside two different closures, a third one was taken too
C12_Witness ==
    /\ Cardinality(Running) >= 2
    /\ Len(deqLog) >= 3
    /\ \A t \in 1..3 : started[t] = 1

\* C13: from the end of new to the end of drop no send fails: no closure has
\* been rejected by execute and drop has not panicked in its loop of sends.
C13_NoSendFails ==
    /\ rejected = {}
    /\ ~(pool = "drop_panicked" /\ termSent < size)

\* C13 (what holds of the code): as long as no task has panicked, a receiver
\* handle is live wherever a send can still be made.
C13_NoSendFailsWithoutPanic ==
    (NoTaskPanicked /\ (pool = "alive" \/ (pool = "dropping" /\ termSent < size)))
        => LiveReceivers # {}

\* number of Terminate messages in a sequence of messages
TermsIn(s) == Cardinality({i \in 1..Len(s) : s[i] = Terminate})

\* C14: drop sends one Terminate per iteration and never more than `size`;
\* all `size` of them are sent before the first join; every Terminate taken
\* went to a different worker, which then stays out of its loop; and when
\* drop has returned every worker has taken exactly one and none is left.
C14_Counted ==
    /\ TermsIn(sentLog) = termSent
    /\ termSent <= size
    /\ TermsIn(deqLog) =
          Cardinality({w \in DOMAIN wpc : wpc[w] = "done" \/ wop[w] = Terminate})
    /\ pool = "dropped" =>
          /\ TermsIn(sentLog) = size
          /\ TermsIn(deqLog) = size
          /\ TermsIn(queue) = 0

C14_SentBeforeJoin ==
    (pool = "dropping" /\ (joinIdx' # joinIdx \/ thread' # thread))
        => TermsIn(sentLog) = size

C14_StopIsFinal ==
    \A w \in DOMAIN wpc :
        /\ wpc[w] = "done" => (w \in DOMAIN wpc' /\ wpc'[w] = "done")
        /\ (wpc[w] = "match" /\ wop[w] = Terminate)
              => wpc'[w] \in {"match", "done"}

C14_OneStopPerWorker ==
    /\ []C14_Counted
    /\ [][C14_SentBeforeJoin /\ C14_StopIsFinal]_vars

\* drop has returned on a pool of several workers that also ran closures
C14_Witness ==
    /\ pool = "dropped"
    /\ size >= 2
    /\ TermsIn(deqLog) = size
    /\ Len(deqLog) > size

\* ------------------------------------------------------ a worker on its own
\* The channel contents a Worker can be given: k messages, each an Execute of
\* its own closure or a Terminate.
QueuesUpTo(n) ==
    UNION {{[i \in 1..k |-> IF f[i] = "Execute" THEN Execute(i) ELSE Terminate] :
               f \in [1..k -> {"Execute", "Terminate"}]} : k \in 0..n}

\* Worker::new(id, receiver) for id in 0..size, on any receiver: the channel
\* holds some messages, its Sender is alive or already dropped, and the Mutex
\* is clean or was poisoned by another holder of the Arc.
WorkerInit ==
    /\ pool \in {"alive", "disconnected"}
    /\ size \in 1..MaxSize
    /\ termSent = 0
    /\ joinIdx = 0
    /\ thread = [w \in WorkerIds(size) |-> TRUE]
    /\ queue \in QueuesUpTo(MaxTasks)
    /\ mutex = {}
    /\ poisoned \in BOOLEAN
    /\ wpc = [w \in WorkerIds(size) |-> "loop"]
    /\ wop = [w \in WorkerIds(size) |-> NoOp]
    /\ nextTask = Len(queue) + 1
    /\ started = [t \in Tasks |-> 0]
    /\ finished = [t \in Tasks |-> 0]
    /\ rejected = {}
    /\ sentLog = queue
    /\ deqLog = <<>>
    /\ hpc = "idle"
    /\ peer = <<>>
    /\ buffer = <<>>
    /\ readLog = <<>>
    /\ writeLog = <<>>

WorkerNext ==
    \/ \E w \in Workers : WorkerLock(w)
    \/ \E w \in Workers : WorkerRecv(w)
    \/ \E w \in Workers : WorkerMatch(w)
    \/ \E w \in Workers : TaskReturn(w)
    \/ \E w \in Workers : TaskPanic(w)

WorkerSpec == WorkerInit /\ [][WorkerNext]_vars

\* C15: a worker whose recv() returned Err (channel closed) leaves its loop:
\* from the match on that op_res its thread ends, and it never locks or
\* receives again.
C15_RecvErrorExits ==
    [][\A w \in DOMAIN wpc :
          (wpc[w] = "match" /\ wop[w] = RecvError /\ wpc'[w] # "match")
              => wpc'[w] = "done"]_vars

\* C17: a worker whose lock() failed on a poisoned Mutex has no op_res: it
\* takes nothing from the channel, invokes nothing, lets the guard go and is
\* back at the top of its loop, its thread still alive.
C17_LockFailureSkips ==
    \A w \in DOMAIN wpc :
        /\ (poisoned /\ wpc[w] = "loop" /\ wpc'[w] # "loop") =>
              /\ wpc'[w] = "match"
              /\ wop'[w] = NoOp
              /\ <<queue, deqLog, started, finished>>'
                    = <<queue, deqLog, started, finished>>
        /\ (wpc[w] = "match" /\ wop[w] = NoOp /\ wpc'[w] # "match") =>
              /\ wpc'[w] = "loop"
              /\ w \notin mutex'
              /\ <<queue, deqLog, started, finished>>'
                    = <<queue, deqLog, started, finished>>

C17_Untouched ==
    poisoned =>
        /\ deqLog = <<>>
        /\ \A w \in DOMAIN wpc : wpc[w] \in {"loop", "match"} /\ wop[w] = NoOp

C17_PoisonSkips ==
    /\ []C17_Untouched
    /\ [][C17_LockFailureSkips]_vars

\* the Mutex is poisoned, messages wait, and a worker has just failed to lock
C17_Witness ==
    /\ poisoned
    /\ queue # <<>>
    /\ size >= 2
    /\ \E w \in DOMAIN wpc : wpc[w] = "match" /\ wop[w] = NoOp /\ mutex = {w}

\* ------------------------------------------------- tasks that may never return
\* The closures that are free never to return from task(); every other closure
\* that is invoked ends, by returning or by panicking.
StuckTasks == {1, 3}

\* Fair scheduling of the threads, where only a closure outside StuckTasks is
\* bound to come back from task().
StuckFairness ==
    /\ WF_vars(DropSendTerminate)
    /\ WF_vars(DropJoin)
    /\ WF_vars(DropReturn)
    /\ \A w \in WorkerIds(MaxSize) :
          /\ WF_vars(WorkerLock(w))
          /\ WF_vars(WorkerRecv(w))
          /\ WF_vars(WorkerMatch(w))
          /\ WF_vars(TaskReturn(w) /\ wop[w].task \notin StuckTasks)

StuckSpec == Spec /\ StuckFairness

\* no shutdown in progress: drop has not been entered
NoShutdown == pool \in {"new", "new_panicked", "alive"}

\* a worker that is not taken out by a claimed closure that does not return:
\* its thread is alive and it is not inside a closure of StuckTasks
SpareWorker ==
    \E w \in DOMAIN wpc :
        /\ wpc[w] # "panicked"
        /\ ~(wpc[w] = "task" /\ wop[w].task \in StuckTasks)

\* C16: under fair scheduling and with no shutdown, as long as fewer than
\* `size` workers are lost to claimed closures that never return (there is
\* again and again a spare worker), every closure that was sent is eventually
\* taken from the channel and invoked.
C16_StuckStarvesOne ==
    \A t \in Tasks :
        ([]NoShutdown /\ []<>SpareWorker)
            => ((nextTask > t /\ t \notin rejected) ~> (started[t] = 1))

\* two workers of three are inside closures of StuckTasks and the closures
\* sent after each of them have been run by the third worker
C16_Witness ==
    /\ pool = "alive"
    /\ size = 3
    /\ \E w1, w2 \in DOMAIN wpc :
          /\ wpc[w1] = "task" /\ wop[w1].task = 1
          /\ wpc[w2] = "task" /\ wop[w2].task = 3
    /\ finished[2] = 1
    /\ finished[4] = 1

\* ------------------------------------------------------------------- main
\* The closure `|| handle(stream)` of main whose connection is followed byte
\* by byte; the other closures are handle on other connections and return.
HandleTask == 1

\* task() enters handle(stream): `let mut buffer = [0u8; 1024]; loop {`
HandleEnter(w) ==
    /\ w \in Workers
    /\ wpc[w] = "task"
    /\ wop[w].task = HandleTask
    /\ hpc = "idle"
    /\ hpc' = "read"
    /\ UNCHANGED <<peer, buffer, readLog, writeLog>>
    /\ UNCHANGED poolVars

\* How handle leaves its loop: both arms (Ok(0) and Err(e)) print and break,
\* and handle returns to the worker.
HandleEndsUnwrap(h) == IF h = "failed" THEN "panicked" ELSE "loop"
HandleEnds(h) == "loop"

\* handle(stream) is over and task() comes back to the worker loop.
HandleReturn(w) ==
    /\ w \in Workers
    /\ wpc[w] = "task"
    /\ wop[w].task = HandleTask
    /\ hpc \in {"done", "failed"}
    /\ wpc' = [wpc EXCEPT ![w] = HandleEnds(hpc)]
    /\ finished' = IF HandleEnds(hpc) = "loop"
                   THEN [finished EXCEPT ![HandleTask] = @ + 1]
                   ELSE finished
    /\ wop' = [wop EXCEPT ![w] = NoOp]
    /\ UNCHANGED <<pool, size, termSent, joinIdx, thread, queue, mutex,
                   poisoned, nextTask, started, rejected, sentLog, deqLog>>
    /\ UNCHANGED echoVars

\* handle on another connection returns.
OtherReturn(w) ==
    /\ w \in Workers
    /\ wpc[w] = "task"
    /\ wop[w].task # HandleTask
    /\ TaskReturn(w)

\* What the peer of the followed connection sends: any number of bytes up to
\* MaxData; their values play no part in what the pool does.
ServePeers == SeqsUpTo({0}, MaxData)

\* main: the pool is built, the accept loop submits one closure per
\* connection and never ends, so the pool is never dropped.
ServeInit ==
    /\ pool = "new"
    /\ size = 0
    /\ termSent = 0
    /\ joinIdx = 0
    /\ thread = <<>>
    /\ queue = <<>>
    /\ mutex = {}
    /\ poisoned = FALSE
    /\ wpc = <<>>
    /\ wop = <<>>
    /\ nextTask = 1
    /\ started = [t \in Tasks |-> 0]
    /\ finished = [t \in Tasks |-> 0]
    /\ rejected = {}
    /\ sentLog = <<>>
    /\ deqLog = <<>>
    /\ hpc = "idle"
    /\ peer \in ServePeers
    /\ buffer = <<>>
    /\ readLog = <<>>
    /\ writeLog = <<>>

ServeNext ==
    \/ \E n \in 0..MaxSize : ThreadPoolNew(n)
    \/ ThreadPoolExecute
    \/ \E w \in Workers : WorkerLock(w)
    \/ \E w \in Workers : WorkerRecv(w)
    \/ \E w \in Workers : WorkerMatch(w)
    \/ \E w \in Workers : HandleEnter(w)
    \/ EchoRead
    \/ EchoWrite
    \/ \E w \in Workers : HandleReturn(w)
    \/ \E w \in Workers : OtherReturn(w)

ServeSpec == ServeInit /\ [][ServeNext]_vars

\* C18: an I/O error inside handle stays inside the task: the step that hits
\* it changes nothing of the pool, handle then returns to its worker, which is
\* back at the top of its loop, and all `size` worker threads stay alive with
\* no submission rejected.
C18_ErrorReturns ==
    /\ (hpc \in {"read", "write"} /\ hpc' = "failed") => poolVars' = poolVars
    /\ \A w \in DOMAIN wpc :
          (wpc[w] = "task" /\ wop[w].task = HandleTask /\ hpc = "failed"
              /\ wpc'[w] # "task")
          => /\ wpc'[w] = "loop"
             /\ finished'[HandleTask] = finished[HandleTask] + 1

C18_WorkersAlive ==
    pool = "alive" =>
        /\ DOMAIN wpc = 0..(size - 1)
        /\ Cardinality(LiveReceivers) = size
        /\ rejected = {}

C18_FailureContained ==
    /\ []C18_WorkersAlive
    /\ [][C18_ErrorReturns]_vars

\* the only worker ran handle into an I/O error and then served the closure
\* submitted next
C18_Witness ==
    /\ pool = "alive"
    /\ size = 1
    /\ hpc = "failed"
    /\ readLog # <<>>
    /\ finished[HandleTask] = 1
    /\ finished[HandleTask + 1] = 1

\* C19 (what the pool can reach): execute takes &self and drop takes
\* &mut self, so every Execute is sent before the first Terminate; in the
\* channel of a ThreadPool no Execute is ever behind a Terminate.
C19_NoRunBehindStop ==
    \A i, j \in 1..Len(sentLog) :
        (sentLog[i] = Terminate /\ i < j) => sentLog[j] = Terminate

====
